---- MODULE Spec2Model ----
(***************************************************************************)
(* Real-time chat and notification subsystem of investor-connect-platform. *)
(*                                                                         *)
(* State: the Room, Message and Presence stores (chat/models.py), the room *)
(* channel connections (ChatConsumer), the notification connections        *)
(* (NotificationConsumer), the channel layer's groups with each member's   *)
(* queue of routed events, and what every connection has sent to its       *)
(* client.  One action per handler: a handler runs to completion as one    *)
(* step; group_send only queues the event at every member, and a separate  *)
(* Deliver step runs the member's handler for the queued event.            *)
(***************************************************************************)
EXTENDS Integers, Sequences, FiniteSets, TLC

\* ------------------------------------------------------------------ bounds
MaxMsgs     == 2     \* rows the Message store may hold
MaxConns    == 2     \* room-channel connections ever opened
MaxNotif    == 1     \* notification-channel connections ever opened
MaxReads    == 1     \* message_read events handled
MaxTime     == 90    \* the clock stops here
TickSeconds == 30    \* granularity of the clock
MaxNewRooms == 3     \* rooms created on top of the two of Init
MaxTasks    == 2     \* requests in flight at the statement level
MaxRows     == 3     \* rows the UserActivity table may hold
MaxTyping   == 2     \* typing_start / typing_stop events handled

\* -------------------------------------------------------- program constants
StaleSeconds == 60   \* chat/views.py: is_recently_active

\* ------------------------------------------------------------------- names
Users     == {"A", "B", "C"}      \* authenticated accounts
Anonymous == "anon"               \* scope["user"] of an unauthenticated socket
NoUser    == "none"               \* a NULL user foreign key / absent parameter
NoRoom    == "noroom"             \* a NULL room foreign key
NoTime    == -1                   \* a NULL DateTimeField
UnknownId == 0                    \* a well-formed message id naming no row
Conns     == 1..MaxConns
NConns    == 1..MaxNotif
Bodies    == {<<>>, <<" ">>, <<"x">>, <<" ", "x", " ">>}
Tasks     == 1..MaxTasks
NewRoomIds == <<"R3", "R4", "R5", "R6">>   \* the uuid4 ids of created rooms

\* accounts: A is an investor, B a regular user, C a regular user on staff
IsInvestor(u) == u = "A"
IsStaff(u)    == u = "C"

\* IdeaPitch rows: any account that can access the platform may own one;
\* PX is still pending review
Pitches == {"PA", "PB", "PC", "PX"}
PitchOwner(p) == IF p = "PA" THEN "A" ELSE IF p = "PC" THEN "C" ELSE "B"
PitchApproved(p) == p # "PX"

VARIABLES
    now,        \* timezone.now()
    rooms,      \* ChatRoom rows: room id -> the four participant slots
    interests,  \* PitchInterest rows: <<investor, pitch>>
    activity,   \* the UserActivity table, row by row, as SQL statements see it
    task,       \* set_user_online calls in flight, statement by statement
    msgs,       \* ChatMessage rows in creation order; the index is the id
    presence,   \* UserActivity rows, one per user at most
    conn,       \* room-channel connections: state, user, room
    inbox,      \* per room connection: events routed to it, not yet handled
    out,        \* per room connection: frames sent to its client
    nconn,      \* notification connections: state, user
    ninbox,     \* per notification connection: events routed to it
    nout,       \* per notification connection: frames sent to its client
    pubLog,     \* every group_send, in publication order
    last        \* the handler that ran last, with what it saw and answered

vars == <<now, rooms, interests, activity, task, msgs, presence, conn, inbox, out, nconn, ninbox, nout,
          pubLog, last>>

\* ------------------------------------------------------------------ stores
NoRow == [exists |-> FALSE, is_online |-> FALSE, last_seen |-> NoTime,
          is_typing |-> FALSE, current_chat_room |-> NoRoom,
          typing_in_room |-> NoRoom]

TypedRoom(inv, reg) == [investor |-> inv, regular_user |-> reg,
                        participant_1 |-> NoUser, participant_2 |-> NoUser]

GenericRoom(p1, p2) == [investor |-> NoUser, regular_user |-> NoUser,
                        participant_1 |-> p1, participant_2 |-> p2]

IsTyped(r)   == rooms[r].investor # NoUser /\ rooms[r].regular_user # NoUser
IsGeneric(r) == rooms[r].participant_1 # NoUser /\ rooms[r].participant_2 # NoUser

\* ChatRoom.get_participants
Participants(r) ==
    IF IsTyped(r) THEN {rooms[r].investor, rooms[r].regular_user}
    ELSE IF IsGeneric(r) THEN {rooms[r].participant_1, rooms[r].participant_2}
    ELSE {}

\* the has_access test of the chat_room and send_message views
HasAccess(r, u) ==
    IF IsTyped(r) THEN u \in {rooms[r].regular_user, rooms[r].investor}
    ELSE IF IsGeneric(r) THEN u \in {rooms[r].participant_1, rooms[r].participant_2}
    ELSE FALSE

\* ChatRoom.get_other_participant; NoUser is its None
GetOtherParticipant(r, u) ==
    IF IsTyped(r)
    THEN (IF u = rooms[r].investor THEN rooms[r].regular_user ELSE rooms[r].investor)
    ELSE IF IsGeneric(r)
    THEN (IF u = rooms[r].participant_1 THEN rooms[r].participant_2 ELSE rooms[r].participant_1)
    ELSE NoUser

\* whether ChatConsumer.connect admits user u to room r: group_add and
\* accept() run for every client, whatever the room's slots hold
ConnectAdmits(r, u) == TRUE

\* whether views.typing_status accepts the update of user u for room r:
\* the room must exist (get_object_or_404), its slots are not looked at
TypingStatusAdmits(r, u) == r \in DOMAIN rooms

\* the comparison with the connection's user left out
GetOtherUserIdFirstSlot(r, u) ==
    IF IsTyped(r) THEN rooms[r].investor
    ELSE IF IsGeneric(r) THEN rooms[r].participant_1
    ELSE NoUser

\* ChatConsumer.get_other_user_id; NoUser is its None
GetOtherUserId(r, u) ==
    IF IsTyped(r)
    THEN (IF u = rooms[r].regular_user THEN rooms[r].investor ELSE rooms[r].regular_user)
    ELSE IF IsGeneric(r)
    THEN (IF u = rooms[r].participant_1 THEN rooms[r].participant_2 ELSE rooms[r].participant_1)
    ELSE NoUser

\* str.strip() on a body of characters
RECURSIVE LStrip(_)
LStrip(s) == IF s # <<>> /\ Head(s) = " " THEN LStrip(Tail(s)) ELSE s

RECURSIVE RStrip(_)
RStrip(s) == IF s # <<>> /\ s[Len(s)] = " " THEN RStrip(SubSeq(s, 1, Len(s) - 1)) ELSE s

\* the body taken as sent, the strip forgotten
NoStrip(s) == s

Strip(s) == RStrip(LStrip(s))

MsgIds == 1..Len(msgs)

\* the rooms a user fills any of the four slots of
RoomsOfUser(u) ==
    {r \in DOMAIN rooms : u \in {rooms[r].investor, rooms[r].regular_user,
                                 rooms[r].participant_1, rooms[r].participant_2}}

\* the unread rows of user u in store ms: rows of a room u participates in,
\* not sent by u, with read = false
Unread(ms, u) ==
    {i \in 1..Len(ms) : u \in Participants(ms[i].room) /\ ms[i].sender # u /\ ~ms[i].read}

\* the participant of room r that is not u
OtherParticipant(r, u) == CHOOSE o \in Participants(r) : o # u

\* the rows ChatConsumer.get_user_unread_count counts, on the store ms
UnreadIdsIn(ms, u) ==
    IF u \notin Users THEN {}
    ELSE {i \in 1..Len(ms) : ms[i].room \in RoomsOfUser(u) /\ ~ms[i].read /\ ms[i].sender # u}

GetUserUnreadCount(ms, u) == Cardinality(UnreadIdsIn(ms, u))

\* the rows NotificationConsumer.get_unread_count counts
NotifUnreadIds(u) ==
    {i \in MsgIds : /\ u \in {rooms[msgs[i].room].investor, rooms[msgs[i].room].regular_user}
                    /\ ~msgs[i].read
                    /\ msgs[i].sender # u}

\* ChatConsumer.save_message: the new row, or no row when the create raises
\* (an AnonymousUser is no sender)
SaveMessage(r, u, body) ==
    IF u \notin Users THEN <<>>
    ELSE <<[room |-> r, sender |-> u, message |-> body, timestamp |-> now,
            delivered |-> TRUE, delivered_at |-> NoTime,
            read |-> FALSE, read_at |-> NoTime]>>

\* the row changed in memory and never saved
MarkMessageReadUnsaved(mid) == msgs

\* ChatConsumer.mark_message_read on the store
MarkMessageRead(mid) ==
    IF mid \in MsgIds
    THEN [msgs EXCEPT ![mid].read = TRUE, ![mid].read_at = now]
    ELSE msgs

\* ChatConsumer.set_user_online on the store
SetUserOnline(u, r, is_online) ==
    IF u \notin Users THEN presence
    ELSE IF presence[u].exists
    THEN [presence EXCEPT ![u].is_online = is_online,
                          ![u].current_chat_room = IF is_online THEN r ELSE NoRoom,
                          ![u].last_seen = now]
    ELSE [presence EXCEPT ![u] = [NoRow EXCEPT !.exists = TRUE,
                                               !.is_online = is_online,
                                               !.current_chat_room = IF is_online THEN r ELSE NoRoom,
                                               !.last_seen = now]]

\* ------------------------------------------------------------ channel layer
ToRoom(r, e) == [g |-> "chat", key |-> r, ev |-> e]
ToUser(u, e) == [g |-> "notifications", key |-> u, ev |-> e]

\* the events among pubs that the layer routes to group (g, key), in order
Routed(pubs, g, key) ==
    LET sel == SelectSeq(pubs, LAMBDA p : p.g = g /\ p.key = key)
    IN  [i \in 1..Len(sel) |-> sel[i].ev]

\* group_send putting the newest event first in every member's queue
GroupSendNewestFirst(pubs, cs) ==
    /\ inbox' = [c \in Conns |->
                    IF cs[c].state = "open"
                    THEN Routed(pubs, "chat", cs[c].room) \o inbox[c]
                    ELSE <<>>]
    /\ ninbox' = [n \in NConns |->
                    IF nconn[n].state = "open"
                    THEN Routed(pubs, "notifications", nconn[n].user) \o ninbox[n]
                    ELSE <<>>]
    /\ pubLog' = pubLog \o pubs

\* group_send of pubs, in order, with room connection joined (if any) already
\* added to its group and left (if any) still in it
GroupSend(pubs, cs) ==
    /\ inbox' = [c \in Conns |->
                    IF cs[c].state = "open"
                    THEN inbox[c] \o Routed(pubs, "chat", cs[c].room)
                    ELSE <<>>]
    /\ ninbox' = [n \in NConns |->
                    IF nconn[n].state = "open"
                    THEN ninbox[n] \o Routed(pubs, "notifications", nconn[n].user)
                    ELSE <<>>]
    /\ pubLog' = pubLog \o pubs

\* ChatConsumer.send_notification_update: the event and its group
NotificationUpdate(ms, u, cause) ==
    ToUser(u, [type |-> "notification_update",
               unread_count |-> GetUserUnreadCount(ms, u),
               ids |-> UnreadIdsIn(ms, u),
               cause |-> cause])

\* -------------------------------------------------------------------- Init
Init ==
    /\ now = 0
    /\ rooms = [r \in {"R1", "R2"} |->
                  IF r = "R1" THEN TypedRoom("A", "B") ELSE GenericRoom("B", "C")]
    /\ interests = {}
    /\ activity = <<>>
    /\ task = [t \in Tasks |-> [pc |-> "idle"]]
    /\ msgs = <<>>
    /\ presence = [u \in Users |-> NoRow]
    /\ conn = [c \in Conns |-> [state |-> "idle", user |-> NoUser, room |-> NoRoom]]
    /\ inbox = [c \in Conns |-> <<>>]
    /\ out = [c \in Conns |-> <<>>]
    /\ nconn = [n \in NConns |-> [state |-> "idle", user |-> NoUser]]
    /\ ninbox = [n \in NConns |-> <<>>]
    /\ nout = [n \in NConns |-> <<>>]
    /\ pubLog = <<>>
    /\ last = [op |-> "init"]


\* ------------------------------------------------- room channel: connect
\* one existing_message frame of ChatConsumer.send_existing_messages
ExistingFrame(i, u) ==
    [type |-> "existing_message", message_id |-> i, sender_id |-> msgs[i].sender,
     delivered |-> msgs[i].delivered, read |-> msgs[i].read,
     is_own_message |-> (msgs[i].sender = u)]

\* the rows S of the Message store in ascending order of timestamp; rows of
\* one timestamp in the order of their creation
OrderByTimestamp(S) ==
    CHOOSE q \in [1..Cardinality(S) -> S] :
        \A i \in DOMAIN q, j \in DOMAIN q :
            i < j => \/ msgs[q[i]].timestamp < msgs[q[j]].timestamp
                     \/ msgs[q[i]].timestamp = msgs[q[j]].timestamp /\ q[i] < q[j]

\* the rows S in the order of ChatMessage.Meta: ordering = ['-timestamp']
MetaOrdering(S) ==
    CHOOSE q \in [1..Cardinality(S) -> S] :
        \A i \in DOMAIN q, j \in DOMAIN q :
            i < j => \/ msgs[q[i]].timestamp > msgs[q[j]].timestamp
                     \/ msgs[q[i]].timestamp = msgs[q[j]].timestamp /\ q[i] > q[j]

\* room.messages.all() left in the order of the model's Meta
GetExistingMessagesMetaOrder(r) == MetaOrdering({i \in MsgIds : msgs[i].room = r})

\* ChatConsumer.get_existing_messages: room.messages.all().order_by('timestamp')
GetExistingMessages(r) == OrderByTimestamp({i \in MsgIds : msgs[i].room = r})

\* the join without the history replay
ExistingMessagesNone(r, u) == <<>>

\* the existing_message frames of ChatConsumer.send_existing_messages
ExistingMessages(r, u) ==
    LET ids == GetExistingMessages(r)
    IN  [k \in 1..Len(ids) |-> ExistingFrame(ids[k], u)]

\* ChatConsumer.get_other_user_status read from presence store p, as the
\* user_status frame send_existing_messages sends (none for a room without
\* participants)
GetOtherUserStatus(p, r, u) ==
    LET other_user ==
            IF IsTyped(r)
            THEN (IF u = rooms[r].regular_user THEN rooms[r].investor ELSE rooms[r].regular_user)
            ELSE IF IsGeneric(r)
            THEN (IF u = rooms[r].participant_1 THEN rooms[r].participant_2 ELSE rooms[r].participant_1)
            ELSE NoUser
    IN  IF other_user = NoUser THEN <<>>
        ELSE IF p[other_user].exists
        THEN <<[type |-> "user_status", user_id |-> other_user,
                is_online |-> p[other_user].is_online,
                last_seen |-> p[other_user].last_seen]>>
        ELSE <<[type |-> "user_status", user_id |-> other_user,
                is_online |-> FALSE, last_seen |-> NoTime]>>

UserStatusUpdate(u, is_online) ==
    [type |-> "user_status_update", user_id |-> u, is_online |-> is_online,
     last_seen |-> now]

\* ChatConsumer.connect
Connect(c, u, r) ==
    /\ ConnectAdmits(r, u)
    /\ conn[c].state = "idle"
    /\ \A d \in Conns : d < c => conn[d].state # "idle"
    /\ LET cs     == [conn EXCEPT ![c] = [state |-> "open", user |-> u, room |-> r]]
           p      == SetUserOnline(u, r, TRUE)
           status == GetOtherUserStatus(p, r, u)
       IN  /\ conn' = cs
           /\ presence' = p
           /\ out' = [out EXCEPT ![c] = ExistingMessages(r, u) \o status
                                        \o <<[type |-> "connection_established"]>>]
           /\ GroupSend(<<ToRoom(r, UserStatusUpdate(u, TRUE))>>, cs)
           /\ last' = [op |-> "connect", c |-> c, at |-> now]
    /\ UNCHANGED <<now, rooms, interests, activity, task, msgs, nconn, nout>>

\* ChatConsumer.disconnect
Disconnect(c) ==
    /\ conn[c].state = "open"
    /\ LET u  == conn[c].user
           r  == conn[c].room
           cs == [conn EXCEPT ![c].state = "closed"]
       IN  /\ presence' = SetUserOnline(u, r, FALSE)
           /\ conn' = cs
           /\ out' = [out EXCEPT ![c] = <<>>]
           /\ GroupSend(<<ToRoom(r, UserStatusUpdate(u, FALSE))>>, cs)
           /\ last' = [op |-> "disconnect", c |-> c]
    /\ UNCHANGED <<now, rooms, interests, activity, task, msgs, nconn, nout>>

\* ChatConsumer.disconnect when a step of it fails.  fault = "store": the
\* write of set_user_online raises, which set_user_online itself catches and
\* prints; fault = "layer": group_send raises, disconnect ends there and
\* group_discard is never reached, so the channel stays a member of the group
\* ("orphaned": no socket, still in the group).
DisconnectFaulty(c, fault) ==
    /\ conn[c].state = "open"
    /\ LET u  == conn[c].user
           r  == conn[c].room
       IN  IF fault = "store"
           THEN LET cs == [conn EXCEPT ![c].state = "closed"]
                IN  /\ presence' = presence
                    /\ conn' = cs
                    /\ GroupSend(<<ToRoom(r, UserStatusUpdate(u, FALSE))>>, cs)
           ELSE LET cs == [conn EXCEPT ![c].state = "orphaned"]
                IN  /\ presence' = SetUserOnline(u, r, FALSE)
                    /\ conn' = cs
                    /\ GroupSend(<<>>, cs)
    /\ out' = [out EXCEPT ![c] = <<>>]
    /\ last' = [op |-> "disconnect", c |-> c, fault |-> fault]
    /\ UNCHANGED <<now, rooms, interests, activity, task, msgs, nconn, nout>>

\* ------------------------------------------------- room channel: receive
BroadcastMessage(ms, mid) ==
    [type |-> "broadcast_message", message_id |-> mid, sender_id |-> ms[mid].sender,
     timestamp |-> ms[mid].timestamp, delivered |-> TRUE, read |-> FALSE]

\* the room broadcast first, the unread-count push after it
ChatMessagePubsBroadcastFirst(ms, r, u, mid) ==
    LET other_user_id == GetOtherUserId(r, u)
    IN  <<ToRoom(r, BroadcastMessage(ms, mid))>>
        \o (IF other_user_id # NoUser
            THEN <<NotificationUpdate(ms, other_user_id, mid)>> ELSE <<>>)

\* what the chat_message branch of ChatConsumer.receive publishes for the
\* saved row mid of store ms, in order
ChatMessagePubs(ms, r, u, mid) ==
    LET other_user_id == GetOtherUserId(r, u)
    IN  (IF other_user_id # NoUser
         THEN <<NotificationUpdate(ms, other_user_id, mid)>> ELSE <<>>)
        \o <<ToRoom(r, BroadcastMessage(ms, mid))>>

\* ChatConsumer.receive, type chat_message
ReceiveChatMessage(c, body) ==
    /\ conn[c].state = "open"
    /\ LET u       == conn[c].user
           r       == conn[c].room
           message == Strip(body)
           row     == SaveMessage(r, u, message)
           ms      == msgs \o row
           mid     == Len(ms)
       IN  IF message = <<>> \/ row = <<>>
           THEN /\ last' = [op |-> "chat_message", c |-> c, body |-> body,
                            saved |-> FALSE, mid |-> UnknownId]
                /\ UNCHANGED <<msgs, inbox, ninbox, pubLog>>
           ELSE /\ Len(msgs) < MaxMsgs
                /\ msgs' = ms
                /\ GroupSend(ChatMessagePubs(ms, r, u, mid), conn)
                /\ last' = [op |-> "chat_message", c |-> c, body |-> body,
                            saved |-> TRUE, mid |-> mid]
    /\ UNCHANGED <<now, rooms, interests, activity, task, presence, conn, out, nconn, nout>>

MessageReadUpdate(mid, u) ==
    [type |-> "message_read_update", message_id |-> mid, read_by_user_id |-> u,
     read_at |-> now]

NumReads == Cardinality({i \in DOMAIN pubLog : pubLog[i].ev.type = "message_read_update"})

\* ChatConsumer.receive, type message_read with a message_id
ReceiveMessageRead(c, mid) ==
    /\ conn[c].state = "open"
    /\ NumReads < MaxReads
    /\ LET u  == conn[c].user
           r  == conn[c].room
           ms == MarkMessageRead(mid)
       IN  /\ msgs' = ms
           /\ GroupSend(<<NotificationUpdate(ms, u, UnknownId),
                          ToRoom(r, MessageReadUpdate(mid, u))>>, conn)
           /\ last' = [op |-> "message_read", c |-> c, mid |-> mid,
                       before |-> Cardinality(Unread(msgs, u)),
                       was_unread |-> (mid \in MsgIds /\ ~msgs[mid].read)]
    /\ UNCHANGED <<now, rooms, interests, activity, task, presence, conn, out, nconn, nout>>

\* ChatConsumer.receive of a frame whose handling raises before any write or
\* send: text that is no JSON, JSON that is no object, a chat_message
\* without "message" or with one that is no string, a message_read whose
\* id is no UUID (ValidationError out of mark_message_read) or whose row
\* cannot be saved; and of a frame no branch takes: an unknown type, a
\* message_read without id.  The except clause of receive prints and returns.
BadEvents == {"bad_json", "not_an_object", "no_message_field", "bad_message_id",
              "save_error", "unknown_type", "no_message_id"}

ReceiveMalformed(c, kind) ==
    /\ conn[c].state = "open"
    /\ last' = [op |-> "bad_event", c |-> c, kind |-> kind]
    /\ UNCHANGED <<now, rooms, interests, activity, task, msgs, presence, conn, inbox,
                   out, nconn, ninbox, nout, pubLog>>

TypingIndicator(u, is_typing) ==
    [type |-> "typing_indicator", user_id |-> u, is_typing |-> is_typing]

\* ChatConsumer.receive, types typing_start (is_typing) and typing_stop
NumTyping == Cardinality({i \in DOMAIN pubLog : pubLog[i].ev.type = "typing_indicator"})

ReceiveTyping(c, is_typing) ==
    /\ conn[c].state = "open"
    /\ NumTyping < MaxTyping
    /\ GroupSend(<<ToRoom(conn[c].room, TypingIndicator(conn[c].user, is_typing))>>, conn)
    /\ last' = [op |-> "typing", c |-> c, is_typing |-> is_typing]
    /\ UNCHANGED <<now, rooms, interests, activity, task, msgs, presence, conn, out, nconn, nout>>

\* ------------------------------------------ room channel: routed events
\* ChatConsumer.get_message_sender
GetMessageSender(mid) == IF mid \in MsgIds THEN msgs[mid].sender ELSE NoUser

\* the read receipt forwarded to everyone but the message's sender
RoomHandlerReceiptToOthers(c, e) ==
    LET u == conn[c].user
    IN  IF e.type = "broadcast_message"
        THEN <<[type |-> "new_message", message_id |-> e.message_id,
                sender_id |-> e.sender_id, delivered |-> e.delivered, read |-> e.read,
                is_own_message |-> (e.sender_id = u)]>>
        ELSE IF e.type = "user_status_update"
        THEN (IF e.user_id # u
              THEN <<[type |-> "user_status", user_id |-> e.user_id,
                      is_online |-> e.is_online, last_seen |-> e.last_seen]>>
              ELSE <<>>)
        ELSE IF e.type = "message_read_update"
        THEN (IF GetMessageSender(e.message_id) # u
              THEN <<[type |-> "message_read", message_id |-> e.message_id,
                      read_by_user_id |-> e.read_by_user_id, read_at |-> e.read_at]>>
              ELSE <<>>)
        ELSE IF e.type = "typing_indicator"
        THEN (IF e.user_id # u
              THEN <<[type |-> "typing_status", user_id |-> e.user_id,
                      is_typing |-> e.is_typing]>>
              ELSE <<>>)
        ELSE <<>>

\* the frames the handler of room connection c sends for routed event e:
\* broadcast_message, user_status_update, message_read_update, typing_indicator
RoomHandler(c, e) ==
    LET u == conn[c].user
    IN  IF e.type = "broadcast_message"
        THEN <<[type |-> "new_message", message_id |-> e.message_id,
                sender_id |-> e.sender_id, delivered |-> e.delivered, read |-> e.read,
                is_own_message |-> (e.sender_id = u)]>>
        ELSE IF e.type = "user_status_update"
        THEN (IF e.user_id # u
              THEN <<[type |-> "user_status", user_id |-> e.user_id,
                      is_online |-> e.is_online, last_seen |-> e.last_seen]>>
              ELSE <<>>)
        ELSE IF e.type = "message_read_update"
        THEN (IF GetMessageSender(e.message_id) = u
              THEN <<[type |-> "message_read", message_id |-> e.message_id,
                      read_by_user_id |-> e.read_by_user_id, read_at |-> e.read_at]>>
              ELSE <<>>)
        ELSE IF e.type = "typing_indicator"
        THEN (IF e.user_id # u
              THEN <<[type |-> "typing_status", user_id |-> e.user_id,
                      is_typing |-> e.is_typing]>>
              ELSE <<>>)
        ELSE <<>>

\* the channel layer hands room connection c its next routed event
DeliverRoom(c) ==
    /\ conn[c].state = "open"
    /\ inbox[c] # <<>>
    /\ out' = [out EXCEPT ![c] = out[c] \o RoomHandler(c, Head(inbox[c]))]
    /\ inbox' = [inbox EXCEPT ![c] = Tail(inbox[c])]
    /\ UNCHANGED <<now, rooms, interests, activity, task, msgs, presence, conn, nconn, ninbox, nout, pubLog, last>>

\* -------------------------------------------------- notification channel
\* connect without the is_authenticated test
NotifConnectAnyone(n, u) ==
    /\ nconn[n].state = "idle"
    /\ \A d \in NConns : d < n => nconn[d].state # "idle"
    /\ nconn' = [nconn EXCEPT ![n] = [state |-> "open", user |-> u]]
    /\ nout' = [nout EXCEPT ![n] =
                  <<[type |-> "unread_count_update",
                     unread_count |-> Cardinality(NotifUnreadIds(u)),
                     ids |-> NotifUnreadIds(u)]>>]
    /\ last' = [op |-> "notif_connect", n |-> n]
    /\ UNCHANGED <<now, rooms, interests, activity, task, msgs, presence, conn, inbox, out, ninbox, pubLog>>

\* NotificationConsumer.connect
NotifConnect(n, u) ==
    /\ nconn[n].state = "idle"
    /\ \A d \in NConns : d < n => nconn[d].state # "idle"
    /\ IF u \in Users
       THEN /\ nconn' = [nconn EXCEPT ![n] = [state |-> "open", user |-> u]]
            /\ nout' = [nout EXCEPT ![n] =
                          <<[type |-> "unread_count_update",
                             unread_count |-> Cardinality(NotifUnreadIds(u)),
                             ids |-> NotifUnreadIds(u)]>>]
       ELSE /\ nconn' = [nconn EXCEPT ![n] = [state |-> "closed", user |-> u]]
            /\ nout' = nout
    /\ last' = [op |-> "notif_connect", n |-> n]
    /\ UNCHANGED <<now, rooms, interests, activity, task, msgs, presence, conn, inbox, out, ninbox, pubLog>>

\* NotificationConsumer.disconnect
NotifDisconnect(n) ==
    /\ nconn[n].state = "open"
    /\ nconn' = [nconn EXCEPT ![n].state = "closed"]
    /\ ninbox' = [ninbox EXCEPT ![n] = <<>>]
    /\ nout' = [nout EXCEPT ![n] = <<>>]
    /\ last' = [op |-> "notif_disconnect", n |-> n]
    /\ UNCHANGED <<now, rooms, interests, activity, task, msgs, presence, conn, inbox, out, pubLog>>

\* NotificationConsumer.notification_update
NotificationHandler(e) ==
    <<[type |-> "unread_count_update", unread_count |-> e.unread_count, ids |-> e.ids]>>

\* the channel layer hands notification connection n its next routed event
DeliverNotif(n) ==
    /\ nconn[n].state = "open"
    /\ ninbox[n] # <<>>
    /\ nout' = [nout EXCEPT ![n] = nout[n] \o NotificationHandler(Head(ninbox[n]))]
    /\ ninbox' = [ninbox EXCEPT ![n] = Tail(ninbox[n])]
    /\ UNCHANGED <<now, rooms, interests, activity, task, msgs, presence, conn, inbox, out, nconn, pubLog, last>>


\* ------------------------------------------------------------ HTTP views
\* views.send_message (POST by the logged-in user u)
HttpSendMessage(u, r, body) ==
    /\ LET message_text == Strip(body)
           ok == HasAccess(r, u) /\ message_text # <<>>
       IN  IF ok
           THEN /\ Len(msgs) < MaxMsgs
                /\ msgs' = Append(msgs,
                       [room |-> r, sender |-> u, message |-> message_text,
                        timestamp |-> now, delivered |-> FALSE, delivered_at |-> NoTime,
                        read |-> FALSE, read_at |-> NoTime])
                /\ last' = [op |-> "http_send", success |-> TRUE]
           ELSE /\ msgs' = msgs
                /\ last' = [op |-> "http_send", success |-> FALSE]
    /\ UNCHANGED <<now, rooms, interests, activity, task, presence, conn, inbox, out, nconn, ninbox, nout, pubLog>>

\* the presence snapshot of views.chat_room for other_user_id o:
\* <<other_user_online, other_user_typing>>
PresenceSnapshot(r, o) ==
    IF o \in Users /\ presence[o].exists
    THEN LET time_diff          == now - presence[o].last_seen
             is_recently_active == time_diff < StaleSeconds
             is_online          == presence[o].is_online /\ is_recently_active
             is_typing          == presence[o].is_typing
                                   /\ presence[o].typing_in_room = r /\ is_online
         IN  <<is_online, is_typing>>
    ELSE <<FALSE, FALSE>>

\* the two bulk updates of views.chat_room on the rows other_user_id o sent
\* in room r: delivered first, then read
MarkDeliveredAndRead(r, o) ==
    LET delivered == [i \in MsgIds |->
                        IF msgs[i].room = r /\ msgs[i].sender = o /\ ~msgs[i].delivered
                        THEN [msgs[i] EXCEPT !.delivered = TRUE, !.delivered_at = now]
                        ELSE msgs[i]]
    IN  [i \in MsgIds |->
            IF delivered[i].room = r /\ delivered[i].sender = o /\ ~delivered[i].read
            THEN [delivered[i] EXCEPT !.read = TRUE, !.read_at = now]
            ELSE delivered[i]]

\* views.chat_room: ChatMessage.objects.filter(room=chat_room).order_by('timestamp'),
\* as the ids of messages_data
AllMessages(r) == OrderByTimestamp({i \in MsgIds : msgs[i].room = r})

\* views.chat_room, the AJAX get_messages request of the logged-in user u
HttpGetMessages(u, r, o) ==
    /\ IF ~HasAccess(r, u)
       THEN /\ UNCHANGED <<msgs, presence>>
            /\ last' = [op |-> "get_messages", success |-> FALSE]
       ELSE /\ presence' = IF o \in Users /\ ~presence[o].exists
                           THEN [presence EXCEPT ![o] =
                                    [NoRow EXCEPT !.exists = TRUE, !.last_seen = now]]
                           ELSE presence
            /\ msgs' = IF o \in Users THEN MarkDeliveredAndRead(r, o) ELSE msgs
            /\ last' = [op |-> "get_messages", success |-> TRUE, at |-> now, other |-> o,
                        user |-> u, room |-> r, messages |-> AllMessages(r),
                        other_user_online |-> PresenceSnapshot(r, o)[1],
                        other_user_typing |-> PresenceSnapshot(r, o)[2]]
    /\ UNCHANGED <<now, rooms, interests, activity, task, conn, inbox, out, nconn, ninbox, nout, pubLog>>

\* views.typing_status (POST by the logged-in user u)
HttpTypingStatus(u, r, is_typing) ==
    /\ TypingStatusAdmits(r, u)
    /\ presence' =
         IF presence[u].exists
         THEN [presence EXCEPT ![u].is_typing = is_typing,
                               ![u].typing_in_room = IF is_typing THEN r ELSE NoRoom,
                               ![u].last_seen = now]
         ELSE [presence EXCEPT ![u] =
                  [NoRow EXCEPT !.exists = TRUE, !.is_typing = is_typing,
                                !.typing_in_room = IF is_typing THEN r ELSE NoRoom,
                                !.last_seen = now]]
    /\ last' = [op |-> "typing_status", user |-> u]
    /\ UNCHANGED <<now, rooms, interests, activity, task, msgs, conn, inbox, out, nconn, ninbox, nout, pubLog>>

\* views.update_activity (POST by the logged-in user u; r is the room_id
\* parameter, NoRoom when absent; offline is the parameter offline = 'true')
HttpUpdateActivity(u, r, offline) ==
    /\ presence' =
         IF offline
         THEN (IF presence[u].exists
               THEN [presence EXCEPT ![u].is_online = FALSE, ![u].is_typing = FALSE,
                                     ![u].last_seen = now]
               ELSE presence)
         ELSE IF presence[u].exists
         THEN [presence EXCEPT ![u].is_online = TRUE, ![u].current_chat_room = r,
                               ![u].last_seen = now]
         ELSE [presence EXCEPT ![u] =
                  [NoRow EXCEPT !.exists = TRUE, !.is_online = TRUE,
                                !.current_chat_room = r, !.last_seen = now]]
    /\ last' = [op |-> "update_activity", user |-> u, offline |-> offline]
    /\ UNCHANGED <<now, rooms, interests, activity, task, msgs, conn, inbox, out, nconn, ninbox, nout, pubLog>>

\* accounts.views.logout_view, its write to the Presence store
LogoutView(u) ==
    /\ presence' =
         IF presence[u].exists
         THEN [presence EXCEPT ![u].is_online = FALSE, ![u].is_typing = FALSE,
                               ![u].last_seen = now]
         ELSE [presence EXCEPT ![u] = [NoRow EXCEPT !.exists = TRUE, !.last_seen = now]]
    /\ last' = [op |-> "logout", user |-> u]
    /\ UNCHANGED <<now, rooms, interests, activity, task, msgs, conn, inbox, out, nconn, ninbox, nout, pubLog>>

\* -------------------------------------------------------------- the clock
Tick ==
    /\ now + TickSeconds <= MaxTime
    /\ now' = now + TickSeconds
    /\ UNCHANGED <<rooms, interests, activity, task, msgs, presence, conn, inbox, out, nconn, ninbox, nout,
                   pubLog, last>>

\* ------------------------------------------------------------ room creation
\* the store rs with one more row, under a fresh id
InsertRoom(rs, row) ==
    LET id == NewRoomIds[Cardinality(DOMAIN rs) - 1]
    IN  [r \in DOMAIN rs \cup {id} |-> IF r = id THEN row ELSE rs[r]]

\* the id InsertRoom gives the next row
NextRoomId(rs) == NewRoomIds[Cardinality(DOMAIN rs) - 1]

\* the rows ChatRoom.objects.get(investor=inv, regular_user=reg) matches
TypedMatches(rs, inv, reg) ==
    {r \in DOMAIN rs : rs[r].investor = inv /\ rs[r].regular_user = reg}

\* the rows of the filter on participant_1 / participant_2, both orders
GenericMatches(rs, u, o) ==
    {r \in DOMAIN rs :
        \/ rs[r].participant_1 = u /\ rs[r].participant_2 = o
        \/ rs[r].participant_1 = o /\ rs[r].participant_2 = u}

\* ChatRoom.objects.get_or_create(investor=inv, regular_user=reg) run in one
\* piece: the store after it, the room it returns, whether it created it;
\* ok is FALSE when get raises MultipleObjectsReturned
GetOrCreateTyped(rs, inv, reg) ==
    LET found == TypedMatches(rs, inv, reg)
    IN  IF found = {}
        THEN [rooms |-> InsertRoom(rs, TypedRoom(inv, reg)), room |-> NextRoomId(rs),
              created |-> TRUE, ok |-> TRUE]
        ELSE IF Cardinality(found) = 1
        THEN [rooms |-> rs, room |-> CHOOSE r \in found : TRUE,
              created |-> FALSE, ok |-> TRUE]
        ELSE [rooms |-> rs, room |-> NoRoom, created |-> FALSE, ok |-> FALSE]

\* the generic branch of start_chat_with_user run in one piece; first() takes
\* the row updated last, which is the only one when calls do not overlap
FilterOrCreateGeneric(rs, u, o) ==
    LET found == GenericMatches(rs, u, o)
    IN  IF found = {}
        THEN [rooms |-> InsertRoom(rs, GenericRoom(u, o)), room |-> NextRoomId(rs),
              created |-> TRUE, ok |-> TRUE]
        ELSE [rooms |-> rs, room |-> CHOOSE r \in found : TRUE,
              created |-> FALSE, ok |-> TRUE]

\* the second branch keeping the caller in the investor slot
StartChatBranchAsGiven(u, o) ==
    IF IsInvestor(u) /\ ~IsInvestor(o) /\ ~IsStaff(o) THEN <<"typed", u, o>>
    ELSE IF IsInvestor(o) /\ ~IsInvestor(u) /\ ~IsStaff(u) THEN <<"typed", u, o>>
    ELSE <<"generic", u, o>>

\* which branch start_chat_with_user takes for request.user u and other_user o
StartChatBranch(u, o) ==
    IF IsInvestor(u) /\ ~IsInvestor(o) /\ ~IsStaff(o) THEN <<"typed", u, o>>
    ELSE IF IsInvestor(o) /\ ~IsInvestor(u) /\ ~IsStaff(u) THEN <<"typed", o, u>>
    ELSE <<"generic", u, o>>

\* start_chat_with_user run in one piece on the store rs
StartChatResult(rs, u, o) ==
    LET b == StartChatBranch(u, o)
    IN  IF b[1] = "typed" THEN GetOrCreateTyped(rs, b[2], b[3])
        ELSE FilterOrCreateGeneric(rs, b[2], b[3])

\* views.start_chat_with_user (GET by the logged-in user u, naming o)
StartChat(u, o) ==
    /\ IF u = o
       THEN /\ rooms' = rooms
            /\ last' = [op |-> "start_chat", u |-> u, o |-> o, ok |-> FALSE,
                        room |-> NoRoom, created |-> FALSE]
       ELSE LET res == StartChatResult(rooms, u, o)
            IN  /\ Cardinality(DOMAIN res.rooms) <= 2 + MaxNewRooms
                /\ rooms' = res.rooms
                /\ last' = [op |-> "start_chat", u |-> u, o |-> o, ok |-> res.ok,
                            room |-> res.room, created |-> res.created]
    /\ UNCHANGED <<now, interests, activity, task, msgs, presence, conn, inbox, out,
                   nconn, ninbox, nout, pubLog>>

\* pitches.views.add_interest (by the logged-in user u, on pitch p)
AddInterest(u, p) ==
    /\ IF ~IsInvestor(u) \/ ~PitchApproved(p)
       THEN /\ UNCHANGED <<rooms, interests>>
            /\ last' = [op |-> "add_interest", u |-> u, p |-> p, ok |-> FALSE,
                        created |-> FALSE, room_created |-> FALSE]
       ELSE IF <<u, p>> \in interests
       THEN /\ UNCHANGED <<rooms, interests>>
            /\ last' = [op |-> "add_interest", u |-> u, p |-> p, ok |-> TRUE,
                        created |-> FALSE, room_created |-> FALSE]
       ELSE LET res == GetOrCreateTyped(rooms, u, PitchOwner(p))
            IN  /\ Cardinality(DOMAIN res.rooms) <= 2 + MaxNewRooms
                /\ interests' = interests \cup {<<u, p>>}
                /\ rooms' = res.rooms
                /\ last' = [op |-> "add_interest", u |-> u, p |-> p, ok |-> res.ok,
                            created |-> TRUE, room_created |-> res.created]
    /\ UNCHANGED <<now, activity, task, msgs, presence, conn, inbox, out,
                   nconn, ninbox, nout, pubLog>>

\* pitches.views.remove_interest
RemoveInterest(u, p) ==
    /\ IsInvestor(u)
    /\ interests' = interests \ {<<u, p>>}
    /\ last' = [op |-> "remove_interest", u |-> u, p |-> p,
                removed |-> (<<u, p>> \in interests)]
    /\ UNCHANGED <<now, rooms, activity, task, msgs, presence, conn, inbox, out,
                   nconn, ninbox, nout, pubLog>>

\* ------------------------------------- requests that overlap, by statement
\* start_chat_with_user, the lookup: get (typed) or filter().first() (generic)
StartChatLookup(t, u, o) ==
    /\ task[t].pc \in {"idle", "done"}
    /\ u # o
    /\ LET b     == StartChatBranch(u, o)
           found == IF b[1] = "typed" THEN TypedMatches(rooms, b[2], b[3])
                    ELSE GenericMatches(rooms, b[2], b[3])
       IN  task' = [task EXCEPT ![t] =
                IF found = {}
                THEN [pc |-> "sc_create", op |-> "start_chat", b |-> b]
                ELSE IF b[1] = "typed" /\ Cardinality(found) > 1
                THEN [pc |-> "done", op |-> "start_chat", b |-> b, ok |-> FALSE,
                      room |-> NoRoom, created |-> FALSE]
                ELSE [pc |-> "done", op |-> "start_chat", b |-> b, ok |-> TRUE,
                      room |-> CHOOSE r \in found : TRUE, created |-> FALSE]]
    /\ UNCHANGED <<now, rooms, interests, activity, msgs, presence, conn, inbox, out,
                   nconn, ninbox, nout, pubLog, last>>

\* start_chat_with_user, the insert after a lookup that found nothing: no
\* constraint of ChatRoom makes it fail
StartChatCreate(t) ==
    /\ task[t].pc = "sc_create"
    /\ Cardinality(DOMAIN rooms) < 2 + MaxNewRooms
    /\ LET b   == task[t].b
           row == IF b[1] = "typed" THEN TypedRoom(b[2], b[3]) ELSE GenericRoom(b[2], b[3])
       IN  /\ rooms' = InsertRoom(rooms, row)
           /\ task' = [task EXCEPT ![t] =
                    [pc |-> "done", op |-> "start_chat", b |-> b, ok |-> TRUE,
                     room |-> NextRoomId(rooms), created |-> TRUE]]
    /\ UNCHANGED <<now, interests, activity, msgs, presence, conn, inbox, out,
                   nconn, ninbox, nout, pubLog, last>>

\* the rows of the UserActivity table for user u, by primary key
ActivityRows(tbl, u) == {i \in DOMAIN tbl : tbl[i].user = u}

\* INSERT into a table whose user column is not unique (a ForeignKey)
InsertActivityUnconstrained(tbl, row) == [ok |-> TRUE, tbl |-> Append(tbl, row)]

\* INSERT into UserActivity: user is a OneToOneField, so a second row for
\* the same user raises IntegrityError
InsertActivity(tbl, row) ==
    IF ActivityRows(tbl, row.user) # {}
    THEN [ok |-> FALSE, tbl |-> tbl]
    ELSE [ok |-> TRUE, tbl |-> Append(tbl, row)]

\* the values set_user_online(is_online) writes for user u on room r
OnlineValues(u, r, is_online) ==
    [user |-> u, is_online |-> is_online,
     current_chat_room |-> IF is_online THEN r ELSE NoRoom, last_seen |-> now]

\* the records of the calls still of interest: once every call has
\* completed, a new call starts a new round
Round ==
    IF \A t \in Tasks : task[t].pc = "done"
    THEN [t \in Tasks |-> [pc |-> "idle"]]
    ELSE task

\* set_user_online, the SELECT of get_or_create
SetOnlineGet(t, u, r, is_online) ==
    /\ Round[t].pc = "idle"
    /\ LET found == ActivityRows(activity, u)
           w     == OnlineValues(u, r, is_online)
       IN  task' = [Round EXCEPT ![t] =
                IF found = {}
                THEN [pc |-> "so_create", op |-> "set_user_online", w |-> w]
                ELSE IF Cardinality(found) = 1
                THEN [pc |-> "so_save", op |-> "set_user_online", w |-> w,
                      pk |-> CHOOSE i \in found : TRUE, raced |-> FALSE]
                ELSE [pc |-> "done", op |-> "set_user_online", w |-> w, ok |-> FALSE,
                      raced |-> FALSE]]
    /\ UNCHANGED <<now, rooms, interests, activity, msgs, presence, conn, inbox, out,
                   nconn, ninbox, nout, pubLog, last>>

\* set_user_online, the INSERT of get_or_create with the defaults; on
\* IntegrityError get_or_create selects again and returns created = False
SetOnlineCreate(t) ==
    /\ task[t].pc = "so_create"
    /\ Len(activity) < MaxRows
    /\ LET w   == task[t].w
           ins == InsertActivity(activity, w)
       IN  IF ins.ok
           THEN /\ activity' = ins.tbl
                /\ task' = [task EXCEPT ![t] =
                      [pc |-> "done", op |-> "set_user_online", w |-> w, ok |-> TRUE,
                       raced |-> FALSE]]
           ELSE /\ activity' = activity
                /\ task' = [task EXCEPT ![t] =
                      [pc |-> "so_save", op |-> "set_user_online", w |-> w,
                       pk |-> CHOOSE i \in ActivityRows(activity, w.user) : TRUE,
                       raced |-> TRUE]]
    /\ UNCHANGED <<now, rooms, interests, msgs, presence, conn, inbox, out,
                   nconn, ninbox, nout, pubLog, last>>

\* set_user_online, the UPDATE of activity.save() when the row was not created
SetOnlineSave(t) ==
    /\ task[t].pc = "so_save"
    /\ activity' = [activity EXCEPT ![task[t].pk] = task[t].w]
    /\ task' = [task EXCEPT ![t] =
            [pc |-> "done", op |-> "set_user_online", w |-> task[t].w, ok |-> TRUE,
             raced |-> task[t].raced]]
    /\ UNCHANGED <<now, rooms, interests, msgs, presence, conn, inbox, out,
                   nconn, ninbox, nout, pubLog, last>>

\* mark_message_read, the SELECT of ChatMessage.objects.get(id=message_id):
\* the row as it is now, held in memory by the call
MarkReadLoad(t, mid) ==
    /\ task[t].pc \in {"idle", "done"}
    /\ mid \in MsgIds
    /\ task' = [task EXCEPT ![t] =
            [pc |-> "mr_save", op |-> "mark_message_read", mid |-> mid, row |-> msgs[mid]]]
    /\ UNCHANGED <<now, rooms, interests, activity, msgs, presence, conn, inbox, out,
                   nconn, ninbox, nout, pubLog, last>>

\* mark_message_read, message.save(): without update_fields the UPDATE
\* writes every column from the row in memory, read and read_at set on it
MarkReadSave(t) ==
    /\ task[t].pc = "mr_save"
    /\ msgs' = [msgs EXCEPT ![task[t].mid] =
                  [task[t].row EXCEPT !.read = TRUE, !.read_at = now]]
    /\ task' = [task EXCEPT ![t] =
            [pc |-> "done", op |-> "mark_message_read", mid |-> task[t].mid]]
    /\ UNCHANGED <<now, rooms, interests, activity, presence, conn, inbox, out,
                   nconn, ninbox, nout, pubLog, last>>

\* views.chat_room, the first bulk UPDATE: delivered on the undelivered rows
\* other_user_id o sent in room r
FetchMarkDelivered(t, u, r, o) ==
    /\ task[t].pc \in {"idle", "done"}
    /\ HasAccess(r, u)
    /\ msgs' = [i \in MsgIds |->
                  IF msgs[i].room = r /\ msgs[i].sender = o /\ ~msgs[i].delivered
                  THEN [msgs[i] EXCEPT !.delivered = TRUE, !.delivered_at = now]
                  ELSE msgs[i]]
    /\ task' = [task EXCEPT ![t] = [pc |-> "gm_read", op |-> "get_messages", r |-> r, o |-> o]]
    /\ UNCHANGED <<now, rooms, interests, activity, presence, conn, inbox, out,
                   nconn, ninbox, nout, pubLog, last>>

\* views.chat_room, the second bulk UPDATE: read on the unread rows
FetchMarkRead(t) ==
    /\ task[t].pc = "gm_read"
    /\ msgs' = [i \in MsgIds |->
                  IF msgs[i].room = task[t].r /\ msgs[i].sender = task[t].o /\ ~msgs[i].read
                  THEN [msgs[i] EXCEPT !.read = TRUE, !.read_at = now]
                  ELSE msgs[i]]
    /\ task' = [task EXCEPT ![t] = [pc |-> "done", op |-> "get_messages"]]
    /\ UNCHANGED <<now, rooms, interests, activity, presence, conn, inbox, out,
                   nconn, ninbox, nout, pubLog, last>>

\* the room connection c has a handler in flight: its connect between the
\* group_add and the history read, or its receive between the save and the
\* group_send; the consumer runs one handler at a time, so events routed to
\* c wait in its queue meanwhile
Joining(c) == \E t \in Tasks : task[t].pc = "join_history" /\ task[t].c = c

Sending(c) == \E t \in Tasks : task[t].pc = "send_publish" /\ task[t].c = c

\* ChatConsumer.connect up to the history read: group_add, accept,
\* set_user_online(True)
JoinGroupAdd(t, c, u, r) ==
    /\ ConnectAdmits(r, u)
    /\ task[t].pc \in {"idle", "done"}
    /\ conn[c].state = "idle"
    /\ \A d \in Conns : d < c => conn[d].state # "idle"
    /\ conn' = [conn EXCEPT ![c] = [state |-> "open", user |-> u, room |-> r]]
    /\ presence' = SetUserOnline(u, r, TRUE)
    /\ task' = [task EXCEPT ![t] = [pc |-> "join_history", op |-> "connect", c |-> c]]
    /\ UNCHANGED <<now, rooms, interests, activity, msgs, inbox, out, nconn, ninbox, nout,
                   pubLog, last>>

\* ChatConsumer.connect from the history read on: send_existing_messages,
\* the group_send of the online status, connection_established
JoinHistory(t) ==
    /\ task[t].pc = "join_history"
    /\ LET c      == task[t].c
           u      == conn[c].user
           r      == conn[c].room
           status == GetOtherUserStatus(presence, r, u)
       IN  /\ out' = [out EXCEPT ![c] = ExistingMessages(r, u) \o status
                                        \o <<[type |-> "connection_established"]>>]
           /\ GroupSend(<<ToRoom(r, UserStatusUpdate(u, TRUE))>>, conn)
           /\ last' = [op |-> "connect", c |-> c, at |-> now]
           /\ task' = [task EXCEPT ![t] = [pc |-> "done", op |-> "connect", c |-> c]]
    /\ UNCHANGED <<now, rooms, interests, activity, msgs, presence, conn, nconn, nout>>

\* ChatConsumer.receive, type chat_message, up to the save: strip,
\* save_message; during_join records whether a join of the room was in
\* flight at the save
SendPersist(t, c, body) ==
    /\ task[t].pc \in {"idle", "done"}
    /\ conn[c].state = "open"
    /\ ~Joining(c) /\ ~Sending(c)
    /\ LET u       == conn[c].user
           r       == conn[c].room
           message == Strip(body)
           row     == SaveMessage(r, u, message)
       IN  IF message = <<>> \/ row = <<>>
           THEN /\ msgs' = msgs
                /\ task' = [task EXCEPT ![t] = [pc |-> "done", op |-> "chat_message", c |-> c]]
           ELSE /\ Len(msgs) < MaxMsgs
                /\ msgs' = msgs \o row
                /\ task' = [task EXCEPT ![t] =
                        [pc |-> "send_publish", op |-> "chat_message", c |-> c,
                         mid |-> Len(msgs) + 1, body |-> body,
                         during_join |-> \E d \in Conns : Joining(d) /\ conn[d].room = r]]
    /\ UNCHANGED <<now, rooms, interests, activity, presence, conn, inbox, out, nconn,
                   ninbox, nout, pubLog, last>>

\* ChatConsumer.receive, type chat_message, after the save: the unread-count
\* push and the room broadcast
SendPublish(t) ==
    /\ task[t].pc = "send_publish"
    /\ LET c == task[t].c
       IN  /\ GroupSend(ChatMessagePubs(msgs, conn[c].room, conn[c].user, task[t].mid), conn)
           /\ last' = [op |-> "chat_message", c |-> c, body |-> task[t].body,
                       saved |-> TRUE, mid |-> task[t].mid,
                       during_join |-> task[t].during_join]
           /\ task' = [task EXCEPT ![t] = [pc |-> "done", op |-> "chat_message", c |-> c]]
    /\ UNCHANGED <<now, rooms, interests, activity, msgs, presence, conn, out, nconn, nout>>

\* ---------------------------------------------------------- specifications
\* Spec: the stores and the group traffic, at one instant of the clock.
\* Sockets are opened on the typed room R1 by its two participants, by the
\* outsider C and by an anonymous client; the generic room R2 receives rows
\* through the HTTP send.  The handlers of routed events write no store and
\* publish nothing, so the queues are left undelivered here; SpecLive runs them.
Joins     == {<<"A", "R1">>, <<"B", "R1">>, <<"C", "R1">>, <<Anonymous, "R1">>}
HttpSends == {<<"A", "R1">>, <<"C", "R2">>}
HttpGets  == {<<"B", "R1", "A">>, <<"C", "R1", "A">>}

Next ==
    \/ \E c \in Conns, j \in Joins : Connect(c, j[1], j[2])
    \/ \E c \in Conns : Disconnect(c)
    \/ \E c \in Conns, body \in Bodies : ReceiveChatMessage(c, body)
    \/ \E c \in Conns, mid \in MsgIds \cup {UnknownId} : ReceiveMessageRead(c, mid)
    \/ \E h \in HttpSends, body \in {<<" ">>, <<"x">>} : HttpSendMessage(h[1], h[2], body)
    \/ \E h \in HttpGets : HttpGetMessages(h[1], h[2], h[3])

Spec == Init /\ [][Next]_vars

\* SpecLive: the two participants of R1 on the room channel, the
\* notification channel, and the delivery of routed events, which the
\* consumer's dispatch loop never postpones for ever.
LiveJoins == {<<"A", "R1">>, <<"B", "R1">>}

NextLive ==
    \/ \E c \in Conns, j \in LiveJoins : Connect(c, j[1], j[2])
    \/ \E c \in Conns : Disconnect(c)
    \/ \E c \in Conns : ReceiveChatMessage(c, <<"x">>)
    \/ \E c \in Conns, mid \in MsgIds : ReceiveMessageRead(c, mid)
    \/ \E c \in Conns : DeliverRoom(c)
    \/ \E n \in NConns, u \in {"A", "B", Anonymous} : NotifConnect(n, u)
    \/ \E n \in NConns : NotifDisconnect(n)
    \/ \E n \in NConns : DeliverNotif(n)

SpecLive ==
    /\ Init /\ [][NextLive]_vars
    /\ \A c \in Conns : WF_vars(DeliverRoom(c))
    /\ \A n \in NConns : WF_vars(DeliverNotif(n))

\* SpecPresence: the Presence store while the clock runs.
PresenceJoins == {<<"A", "R1">>, <<"B", "R1">>}

NextPresence ==
    \/ \E c \in Conns, j \in PresenceJoins : Connect(c, j[1], j[2])
    \/ \E c \in Conns : Disconnect(c)
    \/ \E h \in {<<"B", "R1", "A">>, <<"A", "R1", "B">>} : HttpGetMessages(h[1], h[2], h[3])
    \/ \E t \in BOOLEAN : HttpTypingStatus("B", "R1", t)
    \/ Tick

SpecPresence == Init /\ [][NextPresence]_vars

\* SpecStamps: the timestamps of the Message store while the clock runs; B
\* holds the only socket.
NextStamps ==
    \/ Connect(1, "B", "R1")
    \/ ReceiveChatMessage(1, <<"x">>)
    \/ \E mid \in MsgIds : ReceiveMessageRead(1, mid)
    \/ HttpSendMessage("A", "R1", <<"x">>)
    \/ HttpGetMessages("B", "R1", "A")
    \/ Tick

SpecStamps == Init /\ [][NextStamps]_vars

\* SpecRooms: the Room store under requests that run one after another:
\* start-chat between any two accounts, interest of any account in any pitch.
NextRooms ==
    \/ \E u \in Users, o \in Users : StartChat(u, o)
    \/ \E u \in Users, p \in Pitches : AddInterest(u, p)
    \/ \E p \in Pitches : RemoveInterest("A", p)

SpecRooms == Init /\ [][NextRooms]_vars

\* SpecRoomRace: start-chat requests of any two accounts that overlap.
NextRoomRace ==
    \/ \E t \in Tasks, u \in Users, o \in Users : StartChatLookup(t, u, o)
    \/ \E t \in Tasks : StartChatCreate(t)

SpecRoomRace == Init /\ [][NextRoomRace]_vars

\* SpecPresenceRace: set_user_online calls that overlap: connects and
\* disconnects of A on R1 and of B on R1 and R2.
OnlineCalls == {<<"A", "R1">>, <<"B", "R1">>, <<"B", "R2">>}

NextPresenceRace ==
    \/ \E t \in Tasks, k \in OnlineCalls, on \in BOOLEAN : SetOnlineGet(t, k[1], k[2], on)
    \/ \E t \in Tasks : SetOnlineCreate(t)
    \/ \E t \in Tasks : SetOnlineSave(t)

SpecPresenceRace == Init /\ [][NextPresenceRace]_vars

\* SpecFaults: the room channel with failing steps: disconnects whose store
\* write or group_send fails, frames whose handling raises.
FaultJoins == {<<"A", "R1">>, <<"B", "R1">>, <<Anonymous, "R1">>}

NextFaults ==
    \/ \E c \in Conns, j \in FaultJoins : Connect(c, j[1], j[2])
    \/ \E c \in Conns : Disconnect(c)
    \/ \E c \in Conns, fault \in {"store", "layer"} : DisconnectFaulty(c, fault)
    \/ \E c \in Conns, body \in {<<" ">>, <<"x">>} : ReceiveChatMessage(c, body)
    \/ \E c \in Conns, mid \in MsgIds \cup {UnknownId} : ReceiveMessageRead(c, mid)
    \/ \E c \in Conns, kind \in BadEvents : ReceiveMalformed(c, kind)

SpecFaults == Init /\ [][NextFaults]_vars

\* SpecNotif: the unread counts of B and C, participants of the generic room
\* R2 (B also of the typed room R1), as their notification sockets open.
NextNotif ==
    \/ \E c \in Conns : Connect(c, "C", "R2")
    \/ \E c \in Conns : ReceiveChatMessage(c, <<"x">>)
    \/ \E h \in HttpSends : HttpSendMessage(h[1], h[2], <<"x">>)
    \/ HttpGetMessages("B", "R2", "C")
    \/ \E n \in NConns, u \in {"B", "C"} : NotifConnect(n, u)
    \/ \E n \in NConns : NotifDisconnect(n)
    \/ \E n \in NConns : DeliverNotif(n)

SpecNotif == Init /\ [][NextNotif]_vars

\* SpecStatus: status and typing events on the room channel: the rooms of
\* Init and the room A's interest in a pitch creates, joined by A and B.
NextStatus ==
    \/ \E p \in {"PA", "PB"} : AddInterest("A", p)
    \/ \E c \in Conns, u \in {"A", "B"}, r \in DOMAIN rooms \ {"R2"} : Connect(c, u, r)
    \/ \E c \in Conns : Disconnect(c)
    \/ \E c \in Conns, t \in BOOLEAN : ReceiveTyping(c, t)
    \/ \E c \in Conns : DeliverRoom(c)

SpecStatus == Init /\ [][NextStatus]_vars

\* SpecTyping: the Presence store under every writer of it: room connects
\* and disconnects, the typing-status and activity views, logout.
NextTyping ==
    \/ \E c \in Conns, j \in PresenceJoins : Connect(c, j[1], j[2])
    \/ \E c \in Conns : Disconnect(c)
    \/ \E u \in {"A", "B"}, t \in BOOLEAN : HttpTypingStatus(u, "R1", t)
    \/ \E u \in {"A", "B"}, r \in {"R1", NoRoom}, off \in BOOLEAN : HttpUpdateActivity(u, r, off)
    \/ \E u \in {"A", "B"} : LogoutView(u)

SpecTyping == Init /\ [][NextTyping]_vars

\* SpecCounts: the unread count of B, regular_user of the typed room R1, as
\* B's notification socket sees it, under every writer of R1's messages.
NextCounts ==
    \/ \E c \in Conns, j \in LiveJoins : Connect(c, j[1], j[2])
    \/ \E c \in Conns : ReceiveChatMessage(c, <<"x">>)
    \/ \E c \in Conns, mid \in MsgIds : ReceiveMessageRead(c, mid)
    \/ HttpSendMessage("A", "R1", <<"x">>)
    \/ HttpGetMessages("B", "R1", "A")
    \/ \E n \in NConns : NotifConnect(n, "B")
    \/ \E n \in NConns : NotifDisconnect(n)
    \/ \E n \in NConns : DeliverNotif(n)

SpecCounts == Init /\ [][NextCounts]_vars

\* SpecFlags: the delivered and read flags of A's messages in R1 while B's
\* mark-read on the room channel and B's history fetch overlap, statement
\* by statement.
NextFlags ==
    \/ HttpSendMessage("A", "R1", <<"x">>)
    \/ \E t \in Tasks, mid \in MsgIds : MarkReadLoad(t, mid)
    \/ \E t \in Tasks : MarkReadSave(t)
    \/ \E t \in Tasks : FetchMarkDelivered(t, "B", "R1", "A")
    \/ \E t \in Tasks : FetchMarkRead(t)
    \/ Tick

SpecFlags == Init /\ [][NextFlags]_vars

\* SpecJoin: joins of R1 by its two participants overlapping their sends,
\* statement by statement; a connection handles its routed events and its
\* disconnect only between its own handlers.
NextJoin ==
    \/ \E t \in Tasks, c \in Conns, j \in LiveJoins : JoinGroupAdd(t, c, j[1], j[2])
    \/ \E t \in Tasks : JoinHistory(t)
    \/ \E t \in Tasks, c \in Conns : SendPersist(t, c, <<"x">>)
    \/ \E t \in Tasks : SendPublish(t)
    \/ \E c \in Conns : ~Joining(c) /\ ~Sending(c) /\ DeliverRoom(c)
    \/ \E c \in Conns : ~Joining(c) /\ ~Sending(c) /\ Disconnect(c)

SpecJoin == Init /\ [][NextJoin]_vars

\* ================================================================= claims
IsBlank(body) == \A i \in DOMAIN body : body[i] = " "

\* the user of a room connection is an authenticated participant of its room
IsParticipant(c) == conn[c].user \in Users /\ conn[c].user \in Participants(conn[c].room)

\* C1: a room connection is open (accepted, in the room's group) only for an
\* authenticated participant of its room, and any other connection attempt
\* has been sent nothing, no history replay included.
C1_OnlyParticipantsAdmitted ==
    \A c \in Conns :
        conn[c].state # "idle" /\ ~IsParticipant(c)
            => conn[c].state # "open" /\ out[c] = <<>>

\* C2: every persisted message with read = true has delivered = true.
C2_ReadImpliesDelivered ==
    \A i \in MsgIds : msgs[i].read => msgs[i].delivered

\* C5: for every chat_message persisted through the room channel, the
\* unread-count push it causes is in the publication log before the room
\* broadcast of the message, addressed to the other participant's
\* notification group, and no push caused by it follows the broadcast.
IsPush(p, m) == p.ev.type = "notification_update" /\ p.ev.cause = m

C5_NotifyBeforeBroadcast ==
    /\ \A j \in DOMAIN pubLog :
          pubLog[j].ev.type = "broadcast_message" =>
             LET m == pubLog[j].ev.message_id
             IN  /\ \E i \in 1..(j - 1) :
                       /\ IsPush(pubLog[i], m)
                       /\ m \in pubLog[i].ev.ids
                       /\ msgs[m].sender \in Participants(msgs[m].room)
                            => pubLog[i].key = OtherParticipant(msgs[m].room, msgs[m].sender)
                 /\ \A k \in (j + 1)..Len(pubLog) : ~IsPush(pubLog[k], m)
    /\ last.op = "chat_message" /\ last.saved
          => \E j \in DOMAIN pubLog :
                /\ pubLog[j].ev.type = "broadcast_message"
                /\ pubLog[j].ev.message_id = last.mid

C5_Witness ==
    \E j \in DOMAIN pubLog :
        /\ pubLog[j].ev.type = "broadcast_message"
        /\ msgs[pubLog[j].ev.message_id].sender = "A"
        /\ \E i \in 1..(j - 1) : IsPush(pubLog[i], pubLog[j].ev.message_id) /\ pubLog[i].key = "B"

\* C6: the message_read event of the recipient of message m, as stated: the
\* count pushed to the reader's own notification group is the reader's
\* unread count, and it is one less than the count before the event.
ReadByRecipient ==
    /\ last.op = "message_read"
    /\ last.mid \in MsgIds
    /\ msgs[last.mid].sender # conn[last.c].user
    /\ conn[last.c].user \in Participants(msgs[last.mid].room)

PushedToReader(count) ==
    LET n == Len(pubLog)
    IN  /\ n >= 2
        /\ pubLog[n - 1].g = "notifications"
        /\ pubLog[n - 1].key = conn[last.c].user
        /\ pubLog[n - 1].ev.type = "notification_update"
        /\ pubLog[n - 1].ev.unread_count = count
        /\ Cardinality(Unread(msgs, conn[last.c].user)) = count

C6_ReadDecrementsByOne ==
    ReadByRecipient => PushedToReader(last.before - 1)

\* C6, amended: the same, for a message that is still unread when the
\* event is handled.
C6_UnreadReadDecrementsByOne ==
    ReadByRecipient /\ last.was_unread => PushedToReader(last.before - 1)

C6_Witness ==
    /\ ReadByRecipient /\ last.was_unread
    /\ last.before = 2
    /\ PushedToReader(1)

\* C8: a chat_message whose body is empty or whitespace-only changes no
\* store, queues nothing at any group member, publishes nothing, sends no
\* frame, and leaves the connection open.
C8_BlankIsNoOp ==
    [][ (last' # last /\ last'.op = "chat_message" /\ IsBlank(last'.body))
          => /\ UNCHANGED <<now, rooms, interests, activity, task, msgs, presence, conn, inbox, out,
                            nconn, ninbox, nout, pubLog>>
             /\ conn'[last'.c].state = "open" ]_vars

C8_Witness ==
    /\ last.op = "chat_message"
    /\ last.body = <<" ">>
    /\ ~last.saved
    /\ conn[last.c].state = "open"
    /\ conn[last.c].user \in Users


\* C4: after a participant of room R has sent a non-blank chat_message that
\* was persisted as row m, every notification connection of R's other
\* participant that was open at the send, and stays open, is eventually sent
\* an unread_count_update whose count includes row m; no room connection of
\* the recipient is needed for it.
SentTo(m, n) ==
    /\ last.op = "chat_message" /\ last.saved /\ last.mid = m
    /\ msgs[m].sender \in Participants(msgs[m].room)
    /\ nconn[n].state = "open"
    /\ nconn[n].user = OtherParticipant(msgs[m].room, msgs[m].sender)

GotCount(m, n) ==
    \E k \in DOMAIN nout[n] :
        /\ nout[n][k].type = "unread_count_update"
        /\ m \in nout[n][k].ids
        /\ nout[n][k].unread_count = Cardinality(nout[n][k].ids)

C4_RecipientNotified ==
    \A m \in 1..MaxMsgs, n \in NConns :
        SentTo(m, n) ~> (nconn[n].state = "closed" \/ GotCount(m, n))

C4_Witness ==
    \E m \in MsgIds, n \in NConns :
        /\ nconn[n].state = "open" /\ nconn[n].user = "B"
        /\ msgs[m].sender = "A"
        /\ GotCount(m, n)
        /\ \A c \in Conns : conn[c].user # "B"

\* C7: after the recipient B of message m has sent message_read for m on a
\* connection to m's room, every room connection of m's sender on that room
\* that was open at the event, and stays open, is eventually sent a
\* message_read frame naming m and B.
ReadBy(m, ca) ==
    /\ last.op = "message_read" /\ last.mid = m
    /\ m \in MsgIds
    /\ msgs[m].room = conn[last.c].room
    /\ conn[last.c].user = OtherParticipant(msgs[m].room, msgs[m].sender)
    /\ conn[ca].state = "open"
    /\ conn[ca].room = msgs[m].room
    /\ conn[ca].user = msgs[m].sender

GotReceipt(m, ca) ==
    /\ m \in MsgIds
    /\ \E k \in DOMAIN out[ca] :
        /\ out[ca][k].type = "message_read"
        /\ out[ca][k].message_id = m
        /\ out[ca][k].read_by_user_id = OtherParticipant(msgs[m].room, msgs[m].sender)

C7_ReadReceiptReachesSender ==
    \A m \in 1..MaxMsgs, ca \in Conns :
        ReadBy(m, ca) ~> (conn[ca].state = "closed" \/ GotReceipt(m, ca))

C7_Witness ==
    \E m \in MsgIds, ca \in Conns :
        /\ conn[ca].state = "open" /\ conn[ca].user = "A"
        /\ msgs[m].sender = "A"
        /\ GotReceipt(m, ca)


\* C3: every message whose delivered_at and read_at are both set has
\* timestamp <= delivered_at <= read_at.
C3_StampsOrdered ==
    \A i \in MsgIds :
        (msgs[i].delivered_at # NoTime /\ msgs[i].read_at # NoTime)
            => /\ msgs[i].timestamp <= msgs[i].delivered_at
               /\ msgs[i].delivered_at <= msgs[i].read_at

\* C9: once the disconnect of a user's room connection has completed, the
\* user's presence row has is_online = FALSE and is_typing = FALSE.
C9_DisconnectClearsPresence ==
    (last.op = "disconnect" /\ conn[last.c].user \in Users)
        => LET row == presence[conn[last.c].user]
           IN  row.exists /\ ~row.is_online /\ ~row.is_typing

\* C10: both read paths of another user's presence (the user_status frame
\* sent on a room join, the snapshot of the HTTP get_messages response)
\* report is_online = FALSE for a row stored online whose last_seen is more
\* than StaleSeconds old.
C10_StalePresenceReportedOffline ==
    /\ last.op = "connect"
         => \A k \in DOMAIN out[last.c] :
                (/\ out[last.c][k].type = "user_status"
                 /\ out[last.c][k].last_seen # NoTime
                 /\ last.at - out[last.c][k].last_seen > StaleSeconds)
                    => ~out[last.c][k].is_online
    /\ (last.op = "get_messages" /\ last.success)
         => ((/\ presence[last.other].exists
              /\ presence[last.other].is_online
              /\ last.at - presence[last.other].last_seen > StaleSeconds)
                => ~last.other_user_online)


C14_OneSchemeDistinctUsers ==
    \A r \in DOMAIN rooms :
        LET typed   == <<rooms[r].investor, rooms[r].regular_user>>
            generic == <<rooms[r].participant_1, rooms[r].participant_2>>
            full(pr)  == pr[1] # NoUser /\ pr[2] # NoUser
            empty(pr) == pr[1] = NoUser /\ pr[2] = NoUser
        IN  \/ full(typed) /\ empty(generic) /\ typed[1] # typed[2]
            \/ full(generic) /\ empty(typed) /\ generic[1] # generic[2]


\* C11: whenever no set_user_online call is in flight, the UserActivity
\* table holds at most one row per user, every call has completed without
\* error, and the row of a user some call was made for holds exactly the
\* values one of those calls wrote.
Quiescent == \A t \in Tasks : task[t].pc \in {"idle", "done"}

CallsFor(u) ==
    {t \in Tasks : task[t].pc = "done" /\ task[t].op = "set_user_online" /\ task[t].w.user = u}

C11_OnePresenceRow ==
    Quiescent =>
        \A u \in Users :
            /\ Cardinality(ActivityRows(activity, u)) <= 1
            /\ \A t \in CallsFor(u) :
                  /\ task[t].ok
                  /\ \E i \in ActivityRows(activity, u), d \in CallsFor(u) :
                        activity[i] = task[d].w

C11_Witness ==
    /\ Quiescent
    /\ Cardinality(CallsFor("B")) = 2
    /\ task[1].w # task[2].w
    /\ \E t \in Tasks : task[t].raced
    /\ Cardinality(ActivityRows(activity, "B")) = 1

\* C13: no two rooms hold the same unordered pair of users.
C13_OneRoomPerPair ==
    \A r1 \in DOMAIN rooms, r2 \in DOMAIN rooms :
        r1 # r2 => Participants(r1) # Participants(r2)


\* C15: the history a client is sent on joining room R, and the one the
\* HTTP get_messages response carries, hold exactly R's persisted messages
\* in non-decreasing order of creation timestamp.
InTimestampOrder(ids) ==
    \A i \in DOMAIN ids, j \in DOMAIN ids :
        i < j => msgs[ids[i]].timestamp <= msgs[ids[j]].timestamp

IsHistoryOf(ids, r) ==
    /\ {ids[i] : i \in DOMAIN ids} = {m \in MsgIds : msgs[m].room = r}
    /\ Len(ids) = Cardinality({m \in MsgIds : msgs[m].room = r})

Replayed(c) ==
    LET frames == SelectSeq(out[c], LAMBDA f : f.type = "existing_message")
    IN  [k \in DOMAIN frames |-> frames[k].message_id]

C15_HistoryInTimestampOrder ==
    /\ last.op = "connect"
          => /\ InTimestampOrder(Replayed(last.c))
             /\ IsHistoryOf(Replayed(last.c), conn[last.c].room)
    /\ (last.op = "get_messages" /\ last.success)
          => /\ InTimestampOrder(last.messages)
             /\ IsHistoryOf(last.messages, last.room)

C15_Witness ==
    /\ last.op = "connect"
    /\ Len(Replayed(last.c)) = MaxMsgs
    /\ \E i \in DOMAIN Replayed(last.c), j \in DOMAIN Replayed(last.c) :
          msgs[Replayed(last.c)[i]].timestamp < msgs[Replayed(last.c)[j]].timestamp


\* C16: once the disconnect of a room connection has run, whether or not a
\* step of it failed, the connection is out of the room group and the
\* presence row of its user is offline.
C16_DisconnectAlwaysCleansUp ==
    last.op = "disconnect"
        => /\ conn[last.c].state = "closed"
           /\ conn[last.c].user \in Users
                 => /\ presence[conn[last.c].user].exists
                    /\ ~presence[conn[last.c].user].is_online

\* C17: a client event whose handling fails (a frame that is no valid
\* event, a chat_message the store refuses, a message_read naming no row)
\* leaves the connection open and changes nothing: no store, no queue, no
\* publication, no frame.
IsFailingEvent(l) ==
    \/ l.op = "bad_event"
    \/ l.op = "chat_message" /\ ~IsBlank(l.body) /\ ~l.saved
    \/ l.op = "message_read" /\ l.mid = UnknownId

C17_FailingEventIsNoOp ==
    [][ (last' # last /\ IsFailingEvent(last'))
          => /\ UNCHANGED <<now, rooms, interests, activity, task, msgs, presence, conn,
                            inbox, out, nconn, ninbox, nout, pubLog>>
             /\ conn'[last'.c].state = "open" ]_vars


\* C18: a notification connection of an anonymous client is closed, is in
\* no notification group (nothing is ever routed to it) and has been sent
\* no frame.
C18_AnonymousNotifRefused ==
    \A n \in NConns :
        (nconn[n].state # "idle" /\ nconn[n].user \notin Users)
            => /\ nconn[n].state = "closed"
               /\ ninbox[n] = <<>>
               /\ nout[n] = <<>>

C18_Witness ==
    \E n \in NConns :
        /\ nconn[n].user = Anonymous
        /\ nconn[n].state = "closed"
        /\ \E i \in DOMAIN pubLog : pubLog[i].g = "notifications"

\* C19: the first frame an authenticated notification connection is sent
\* on connect is an unread_count_update whose count is the number of unread
\* messages of the user over all rooms the user fills any slot of, the
\* count the room channel computes in the same state.
C19_ConnectCountCoversAllRooms ==
    (last.op = "notif_connect" /\ nconn[last.n].user \in Users)
        => /\ nout[last.n] # <<>>
           /\ nout[last.n][1].type = "unread_count_update"
           /\ nout[last.n][1].unread_count = Cardinality(Unread(msgs, nconn[last.n].user))
           /\ nout[last.n][1].unread_count = GetUserUnreadCount(msgs, nconn[last.n].user)

\* C20: the broadcasts in the publication log are in the order their
\* client events were received (ids are given at receipt); the events
\* waiting at an open room connection are the latest events published to its
\* room, in publication order; and the messages a connection was sent or
\* still awaits are the latest broadcasts of its room, in that order.
IsSuffix(q, whole) ==
    /\ Len(q) <= Len(whole)
    /\ q = SubSeq(whole, Len(whole) - Len(q) + 1, Len(whole))

RoomEvents(r) == Routed(pubLog, "chat", r)

BroadcastIds(events) ==
    LET b == SelectSeq(events, LAMBDA e : e.type = "broadcast_message")
    IN  [k \in DOMAIN b |-> b[k].message_id]

SentIds(c) ==
    LET f == SelectSeq(out[c], LAMBDA x : x.type = "new_message")
    IN  [k \in DOMAIN f |-> f[k].message_id]

IsStatusFrame(f) == f.type \in {"user_status", "typing_status"}

IsStatusEvent(e) == e.type \in {"user_status_update", "typing_indicator"}

NoStatusAboutSelf ==
    \A c \in Conns :
        conn[c].state = "open"
            => \A k \in DOMAIN out[c] :
                  IsStatusFrame(out[c][k]) => out[c][k].user_id # conn[c].user

OthersStatusForwarded ==
    \A c \in Conns :
        (/\ conn[c].state = "open" /\ inbox[c] # <<>>
         /\ conn'[c].state = "open" /\ inbox'[c] = Tail(inbox[c]) /\ pubLog' = pubLog
         /\ IsStatusEvent(Head(inbox[c]))
         /\ Head(inbox[c]).user_id # conn[c].user)
            => /\ Len(out'[c]) = Len(out[c]) + 1
               /\ IsStatusFrame(out'[c][Len(out'[c])])
               /\ out'[c][Len(out'[c])].user_id = Head(inbox[c]).user_id

C21_NoStatusAboutSelf == []NoStatusAboutSelf /\ [][OthersStatusForwarded]_vars


\* C22: every presence row with is_typing = TRUE has a typing room set and
\* has is_online = TRUE.
C22_TypingImpliesRoomAndOnline ==
    \A u \in Users :
        (presence[u].exists /\ presence[u].is_typing)
            => presence[u].typing_in_room # NoRoom /\ presence[u].is_online


\* C23: the sender of every persisted message is one of the two
\* participants of the message's room.
C23_SenderIsParticipant ==
    \A i \in MsgIds : msgs[i].sender \in Participants(msgs[i].room)


\* C24: a step that changes the delivered or read flag of a message is a
\* message_read event or a history fetch of the other participant of the
\* message's room, on that room: a message_read sent by the message's own
\* sender, by a user outside the room, or on a connection to another room
\* changes no message.
FlagsChange(i) ==
    msgs'[i].read # msgs[i].read \/ msgs'[i].delivered # msgs[i].delivered

IsOtherParticipantOf(u, i) ==
    u \in Participants(msgs[i].room) /\ u # msgs[i].sender

ByOtherParticipant(i) ==
    \/ /\ last'.op = "message_read"
       /\ conn[last'.c].room = msgs[i].room
       /\ IsOtherParticipantOf(conn[last'.c].user, i)
    \/ /\ last'.op = "get_messages" /\ last'.success
       /\ last'.room = msgs[i].room
       /\ IsOtherParticipantOf(last'.user, i)

C24_FlagsChangedByOtherParticipantOnly ==
    [][ \A i \in MsgIds : FlagsChange(i) => ByOtherParticipant(i) ]_vars


\* C25: for every room and every user, room-channel admission, the HTTP
\* history fetch and send, and the HTTP typing-status update grant access
\* exactly when the user fills a slot of the room's populated scheme, and
\* the other-participant lookups name nobody for a user who fills none.
FillsSlot(r, u) == u \in Participants(r)

C25_AccessDecidedAlike ==
    \A r \in DOMAIN rooms, u \in Users :
        /\ ConnectAdmits(r, u) = FillsSlot(r, u)
        /\ HasAccess(r, u) = FillsSlot(r, u)
        /\ TypingStatusAdmits(r, u) = FillsSlot(r, u)
        /\ ~FillsSlot(r, u) => /\ GetOtherUserId(r, u) = NoUser
                               /\ GetOtherParticipant(r, u) = NoUser


\* C26: between handlers, a user with an open room connection has a
\* presence row with is_online = TRUE.
HasOpenConnection(u) == \E c \in Conns : conn[c].state = "open" /\ conn[c].user = u

C26_OnlineWhileConnected ==
    \A u \in Users :
        HasOpenConnection(u) => presence[u].exists /\ presence[u].is_online


\* C27: whenever no event waits at an open notification connection, the
\* last unread_count_update it was sent carries its user's unread count.
C27_LastCountIsCurrent ==
    \A n \in NConns :
        (nconn[n].state = "open" /\ ninbox[n] = <<>> /\ nout[n] # <<>>)
            => nout[n][Len(nout[n])].unread_count
                  = Cardinality(Unread(msgs, nconn[n].user))


\* C28: no step turns the delivered flag or the read flag of a message
\* from TRUE to FALSE.
C28_FlagsMonotone ==
    [][ \A i \in MsgIds :
            /\ msgs[i].delivered => msgs'[i].delivered
            /\ msgs[i].read => msgs'[i].read ]_vars


\* C29: every message of room R whose send has completed has reached every
\* open connection to R whose join has completed, as an existing_message or
\* a new_message frame, or its broadcast waits in the connection's queue.
FrameIds(c) ==
    {out[c][k].message_id :
        k \in {j \in DOMAIN out[c] : out[c][j].type \in {"existing_message", "new_message"}}}

QueuedIds(c) ==
    {inbox[c][k].message_id :
        k \in {j \in DOMAIN inbox[c] : inbox[c][j].type = "broadcast_message"}}

SendCompleted(m) == \A t \in Tasks : ~(task[t].pc = "send_publish" /\ task[t].mid = m)

C29_NoMessageLostAcrossJoin ==
    \A c \in Conns :
        (conn[c].state = "open" /\ ~Joining(c))
            => \A m \in MsgIds :
                  (msgs[m].room = conn[c].room /\ SendCompleted(m))
                      => m \in FrameIds(c) \cup QueuedIds(c)

C29_Witness ==
    /\ last.op = "chat_message" /\ last.saved /\ last.during_join
    /\ \E c \in Conns :
          /\ conn[c].state = "open" /\ ~Joining(c)
          /\ conn[c].user # msgs[last.mid].sender
          /\ inbox[c] = <<>>
          /\ last.mid \in FrameIds(c)

\* C30: no room connection has sent its client two frames (existing_message
\* or new_message) with the same message id of another user's message.
C30_NoMessageTwice ==
    \A c \in Conns :
        \A i \in DOMAIN out[c], j \in DOMAIN out[c] :
            (/\ i < j
             /\ out[c][i].type \in {"existing_message", "new_message"}
             /\ out[c][j].type \in {"existing_message", "new_message"}
             /\ out[c][i].sender_id # conn[c].user)
                => out[c][i].message_id # out[c][j].message_id

====
